---- MODULE Spec2Model ----
(***************************************************************************)
(* livecaptran: the real-time audio-to-phrase pipeline of src/audio.rs.    *)
(*                                                                         *)
(* Three units run concurrently: the capture thread with its input         *)
(* callback, the VAD + transcription thread, and the UI side (session      *)
(* flag, settings write-back, shutdown).  A poll cycle of the VAD thread   *)
(* touches each shared object (sample_rate, audio_buffer, session_active,  *)
(* transcript, settings) once, each under its own lock or as one atomic    *)
(* load, and what the other units do to one of them commutes with the      *)
(* cycle's accesses to the others, so the cycle up to its first network    *)
(* call is one action.  The two blocking network calls end in actions of   *)
(* their own: everything the other units do while a call is outstanding    *)
(* interleaves with them.  SpecLocks takes the cycle apart, one step for   *)
(* each lock taken and one for each guard dropped.                         *)
(*                                                                         *)
(* Amplitudes are integers, the silence threshold is in the same unit.     *)
(* Texts are sequences of one-character strings.                           *)
(***************************************************************************)
EXTENDS Integers, Sequences, FiniteSets, TLC

(* ---- program constants ---- *)
SILENCE_CHUNKS_TO_END == 10
MAX_PHRASE_SECS == 30
HISTORY_LEN == 3

(* ---- bounds of the model ---- *)
\* samples waiting in the buffer, in frames
MaxBuffer == 2
\* loud samples of one phrase
MaxVoiced == 2
\* samples of one phrase fed by ordinary callbacks
MaxPhrase == 13
\* frames of the one callback that follows a stall
StallChunk == 61
\* session files created
MaxFiles == 1
\* samples followed by the audit trail
MaxAudit == 4
\* samples of a phrase encoded on its own, any amplitudes, and of a long uniform one
MaxWav == 3
WavLong == 130
\* frames of a callback whose samples are followed one by one
MaxFrames == 2

VARIABLES
    running,              \* Arc<AtomicBool>: process-wide run flag
    session_active,       \* Arc<AtomicBool>: externally owned session flag
    settings,             \* Arc<Mutex<Settings>>
    transcript,           \* Arc<Mutex<String>>: PublishedResult
    audio_buffer,         \* Arc<Mutex<Vec<f32>>>: SampleBuffer
    sample_rate,          \* Arc<Mutex<u32>>
    capture_pc,           \* capture thread: "start", "streaming", "exited"
    channels,             \* capture thread local: channel count of the stream
    vad_pc,               \* VAD thread: "poll", "transcribing", "translating", "exited"
    speaking,             \* VAD thread locals (audio.rs 318-323)
    phrase,
    silence_count,
    translation_history,
    log_file,             \* 0 = None, k > 0 = Some(handle of files[k])
    was_session_active,
    files,                \* the session files created so far, each a sequence of lines
    call,                 \* arguments and locals of the send_transcription in flight
    ev,                   \* what the last step of the VAD thread did
    reply,                \* the response that step received from a service, if any
    voiced_len,           \* the length of phrase when its last voiced batch was appended
    new_session,          \* the flag was set and no batch of that session was processed yet
    captured,             \* audit trail: every mono sample appended by the callback
    drained,              \* audit trail: every sample taken by the VAD thread
    audit,                \* whether the audit trail is kept in this run
    owner,                \* the thread that holds each Mutex, or "free"
    vad_at,               \* VAD thread: where in the loop body it is, lock by lock
    ui_at,                \* UI thread: where in App::update it is, lock by lock
    local,                \* VAD thread: rate and new_samples of this cycle (audio.rs 328-336)
    stream                \* the device's sample format, and the slice a callback is given

vars == <<running, session_active, settings, transcript, audio_buffer, sample_rate,
          capture_pc, channels, vad_pc, speaking, phrase, silence_count,
          translation_history, log_file, was_session_active, files, call, ev,
          reply, voiced_len, new_session, captured, drained, audit, owner, vad_at,
          ui_at, local, stream>>

\* what the VAD thread owns or writes
vad_vars == <<transcript, vad_pc, speaking, phrase, silence_count, translation_history,
              log_file, was_session_active, files, call, ev, reply, voiced_len>>
\* what the capture thread owns or writes, the buffer aside
capture_vars == <<sample_rate, capture_pc, channels, stream>>
\* what the UI side writes
ui_vars == <<running, session_active, settings>>
\* the locks and the positions between them
lock_vars == <<owner, vad_at, ui_at, local>>

(* ---- values ---- *)
Amps == {0, 2}
None == [some |-> FALSE, val |-> <<>>]
Some(v) == [some |-> TRUE, val |-> v]
EmptyString == <<>>
Separator == <<"-", "-", "-">>
NoCall == [samples |-> <<>>, rate |-> 0, target_language |-> "",
           display_mode |-> "TranslationOnly", text |-> <<>>, messages |-> <<>>,
           wav |-> <<>>]

\* the four Mutexes shared by the threads (audio.rs 196-203, app.rs)
Locks == {"audio_buffer", "sample_rate", "settings", "transcript"}

NoReply == [kind |-> "none", text |-> <<>>]

Min(a, b) == IF a < b THEN a ELSE b

\* the sum of a sequence of numbers, value by value
Occurs(s, a) == Cardinality({i \in DOMAIN s : s[i] = a})

RECURSIVE SumOf(_, _)
SumOf(s, values) ==
    IF values = {} THEN 0
    ELSE LET a == CHOOSE x \in values : TRUE
         IN a * Occurs(s, a) + SumOf(s, values \ {a})

Sum(s) == SumOf(s, {s[i] : i \in DOMAIN s})

SumSq(s) == Sum([i \in DOMAIN s |-> s[i] * s[i]])

(* ---- the VAD decisions (audio.rs 383-401) ---- *)
\* a detector on the mean amplitude instead of the root mean square
IsVoiceByMean(samples, threshold) ==
    IF samples = <<>> THEN 0 > threshold
    ELSE Sum(samples) > threshold * Len(samples)

\* rms(samples) > threshold, for threshold >= 0: sqrt(sum/len) > t iff sum > t*t*len.
\* rms of an empty slice is 0.0.
IsVoice(samples, threshold) ==
    IF samples = <<>> THEN 0 > threshold
    ELSE SumSq(samples) > threshold * threshold * Len(samples)

\* a counter that a voiced batch does not reset
NextSilenceNoReset(is_voice, silence) == silence + 1

\* if is_voice { silence_count = 0 } else { silence_count += 1 }
NextSilence(is_voice, silence) == IF is_voice THEN 0 ELSE silence + 1

\* phrase.len() > rate as usize * MAX_PHRASE_SECS
PhraseTooLong(len, rate) == len > rate * MAX_PHRASE_SECS

\* an end condition one batch late
EndOfPhraseLate(silence, len, rate) ==
    silence > SILENCE_CHUNKS_TO_END \/ PhraseTooLong(len, rate)

\* silence_count >= SILENCE_CHUNKS_TO_END || phrase_too_long
EndOfPhrase(silence, len, rate) ==
    silence >= SILENCE_CHUNKS_TO_END \/ PhraseTooLong(len, rate)

\* a trim of the current batch alone
TrimEndLastBatch(len, silence, batch_len) ==
    IF silence = 0 THEN len ELSE IF batch_len > len THEN 0 ELSE len - batch_len

\* phrase.len().saturating_sub(silence_count * new_samples.len())
TrimEnd(len, silence, batch_len) ==
    IF len >= silence * batch_len THEN len - silence * batch_len ELSE 0

\* a length test that lets half a second through
LongEnoughOrEqual(end, rate) == end >= rate \div 2

\* end > rate as usize / 2
LongEnough(end, rate) == end > rate \div 2

(* ---- the buffer (audio.rs 255-264, 333-336) ---- *)
\* a drain that copies the buffer and leaves it as it is
TakeCopy(b) == <<b, b>>

\* std::mem::take(&mut *b): <<what the caller gets, what stays in the buffer>>
Take(b) == <<b, <<>>>>

\* a downmix that keeps the first channel of each frame
DownmixFirstChannel(data, ch) ==
    [k \in 1..((Len(data) + ch - 1) \div ch) |-> data[(k - 1) * ch + 1]]

\* data.chunks(channels), each chunk summed and divided by channels
Downmix(data, ch) ==
    [k \in 1..((Len(data) + ch - 1) \div ch) |->
        Sum(SubSeq(data, (k - 1) * ch + 1, Min(k * ch, Len(data)))) \div ch]

\* the samples an F32 callback appends
Mono(data, ch) == IF ch > 1 THEN Downmix(data, ch) ELSE data

\* s as f32 / 32768.0, in the unit of the amplitudes, which is 0.003:
\* s / 32768 / 0.003 = s * 125 / 12288
FromI16(s) == (s * 125) \div 12288

\* the samples an I16 callback appends: each value is divided by 32768 before the sum
MonoI16(data, ch) == Mono([i \in DOMAIN data |-> FromI16(data[i])], ch)

\* the samples the callback of a stream of format fmt appends
Pushed(data, ch, fmt) == IF fmt = "I16" THEN MonoI16(data, ch) ELSE Mono(data, ch)

(* ---- encode_wav (audio.rs 12-37) ---- *)
\* a u32 is kept as its two 16-bit halves, the high one first
U32(v) == <<(v \div 65536) % 65536, v % 65536>>

\* u32 addition, wrapping
Add32(x, y) ==
    LET lo == x[2] + y[2]
        hi == x[1] + y[1] + (lo \div 65536)
    IN <<hi % 65536, lo % 65536>>

\* u16::to_le_bytes
LE16(v) == <<v % 256, (v \div 256) % 256>>

\* the bytes of a u32 most significant first
BE32(x) == <<(x[1] \div 256) % 256, x[1] % 256, (x[2] \div 256) % 256, x[2] % 256>>

\* u32::to_le_bytes
LE32(x) == LE16(x[2]) \o LE16(x[1])

\* b"RIFF", b"WAVE", b"fmt ", b"data"
RIFF == <<82, 73, 70, 70>>
WAVE == <<87, 65, 86, 69>>
FMT == <<102, 109, 116, 32>>
DATA == <<100, 97, 116, 97>>

\* (s * 32767.0).clamp(-32768.0, 32767.0) as i16, as the two's complement u16;
\* a sample a of the model is the f32 a * 0.003, and the cast truncates toward zero
Pcm(a) ==
    LET scaled == IF a >= 0 THEN (a * 3 * 32767) \div 1000
                  ELSE 0 - ((0 - a) * 3 * 32767) \div 1000
        clamped == IF scaled > 32767 THEN 32767
                   ELSE IF scaled < 0 - 32768 THEN 0 - 32768 ELSE scaled
    IN (clamped + 65536) % 65536

\* the sample bytes, two a sample, in order
PcmBytes(samples) ==
    [i \in 1..(2 * Len(samples)) |-> LE16(Pcm(samples[(i + 1) \div 2]))[2 - (i % 2)]]

encode_wav(samples, rate) ==
    LET data_size == U32(Len(samples) * 2)
        file_size == Add32(U32(36), data_size)
        byte_rate == Add32(U32(rate), U32(rate))
    IN RIFF \o LE32(file_size) \o WAVE \o FMT \o LE32(U32(16)) \o LE16(1) \o LE16(1)
           \o LE32(U32(rate)) \o LE32(byte_rate) \o LE16(2) \o LE16(16)
           \o DATA \o LE32(data_size) \o PcmBytes(samples)

(* ---- texts ---- *)
\* str::trim
RECURSIVE TrimStart(_)
TrimStart(t) == IF t # <<>> /\ Head(t) = " " THEN TrimStart(Tail(t)) ELSE t

RECURSIVE TrimEndText(_)
TrimEndText(t) ==
    IF t # <<>> /\ t[Len(t)] = " " THEN TrimEndText(SubSeq(t, 1, Len(t) - 1)) ELSE t

Trim(t) == TrimEndText(TrimStart(t))

(* ---- send_transcription and translate_text (audio.rs 46-194) ---- *)
Response(kind, text) == [kind |-> kind, text |-> text]

\* a transcript accepted without the emptiness test
TranscriptOfAny(resp) ==
    IF resp.kind = "text" THEN Some(Trim(resp.text)) ELSE None

\* json["text"].as_str(), trimmed, kept when not empty (audio.rs 138-144);
\* resp.kind: "error" (transport), "not_json", "no_text" (no string field), "text"
TranscriptOf(resp) ==
    IF resp.kind = "text" /\ Trim(resp.text) # <<>> THEN Some(Trim(resp.text)) ELSE None

\* a translation accepted without the emptiness test
TranslationOfAny(resp) ==
    IF resp.kind = "text" THEN Some(Trim(resp.text)) ELSE None

\* json["choices"][0]["message"]["content"].as_str(), trimmed, kept when not empty
TranslationOf(resp) ==
    IF resp.kind = "text" /\ Trim(resp.text) # <<>> THEN Some(Trim(resp.text)) ELSE None

\* the turns of the history, the newest pair first
RECURSIVE TurnsNewestFirst(_)
TurnsNewestFirst(history) ==
    IF history = <<>> THEN <<>>
    ELSE TurnsNewestFirst(Tail(history))
             \o <<[role |-> "user", content |-> Head(history)[1]],
                  [role |-> "assistant", content |-> Head(history)[2]]>>

\* for (orig, translated) in history { push user turn; push assistant turn }
RECURSIVE Turns(_)
Turns(history) ==
    IF history = <<>> THEN <<>>
    ELSE <<[role |-> "user", content |-> Head(history)[1]],
           [role |-> "assistant", content |-> Head(history)[2]]>> \o Turns(Tail(history))

\* the message list of a translation request
Messages(history, text, target_language) ==
    <<[role |-> "system", content |-> <<target_language>>]>>
        \o Turns(history) \o <<[role |-> "user", content |-> text]>>

\* a history that drops the pair just pushed
PushHistoryDropNewest(history, pair) ==
    LET pushed == Append(history, pair)
    IN IF Len(pushed) > HISTORY_LEN THEN SubSeq(pushed, 1, HISTORY_LEN) ELSE pushed

\* history.push_back(..); if history.len() > 3 { history.pop_front(); }
PushHistory(history, pair) ==
    LET pushed == Append(history, pair)
    IN IF Len(pushed) > HISTORY_LEN THEN Tail(pushed) ELSE pushed

HistoryAfter(history, text, maybe_translated) ==
    IF maybe_translated.some THEN PushHistory(history, <<text, maybe_translated.val>>)
    ELSE history

\* a display that shows both texts whatever the mode
DisplayBothAlways(text, maybe_translated, display_mode) ==
    IF maybe_translated.some THEN text \o <<"\n">> \o maybe_translated.val ELSE text

\* the display string
Display(text, maybe_translated, display_mode) ==
    IF maybe_translated.some
    THEN IF display_mode = "TranslationOnly" THEN maybe_translated.val
         ELSE text \o <<"\n">> \o maybe_translated.val
    ELSE text

\* the lines one phrase adds to the session file (the timestamps left out)
LogRecord(text, maybe_translated) ==
    <<text>> \o (IF maybe_translated.some THEN <<maybe_translated.val>> ELSE <<>>)
        \o <<Separator>>

LogAfter(fs, lf, text, maybe_translated) ==
    IF lf # 0 THEN [fs EXCEPT ![lf] = @ \o LogRecord(text, maybe_translated)] ELSE fs

\* a reset that leaves the silence count
ResetPhraseKeepsCount ==
    /\ phrase' = <<>>
    /\ voiced_len' = 0
    /\ speaking' = FALSE
    /\ UNCHANGED silence_count

\* phrase.clear(); speaking = false; silence_count = 0;
ResetPhrase ==
    /\ phrase' = <<>>
    /\ voiced_len' = 0
    /\ speaking' = FALSE
    /\ silence_count' = 0

\* a send_transcription that reads the shared settings when it comes to use them
ArgsLive ==
    [target_language |-> settings.target_language, display_mode |-> settings.display_mode]

\* the target_language and display_mode arguments of the send_transcription in flight:
\* references to the values cloned out of the settings (audio.rs 368-381, 403-418)
Args == [target_language |-> call.target_language, display_mode |-> call.display_mode]

\* the rest of send_transcription once text and maybe_translated are known, and the
\* reset that follows the call in the loop (audio.rs 159-186, 419-421)
Publish(text, maybe_translated) ==
    /\ files' = LogAfter(files, log_file, text, maybe_translated)
    /\ translation_history' = HistoryAfter(translation_history, text, maybe_translated)
    /\ transcript' = Display(text, maybe_translated, Args.display_mode)
    /\ ResetPhrase
    /\ vad_pc' = "poll"
    /\ call' = NoCall
    /\ ev' = IF maybe_translated.some /\ Len(translation_history) = HISTORY_LEN
             THEN "published_evicting" ELSE "published"

\* the transcription request returns
TranscribeReturn(resp) ==
    /\ vad_pc = "transcribing"
    /\ reply' = resp
    /\ UNCHANGED <<ui_vars, capture_vars, audio_buffer, log_file, was_session_active,
                   new_session, captured, drained, audit>>
    /\ LET got == TranscriptOf(resp)
       IN IF ~got.some
          THEN /\ ResetPhrase
               /\ vad_pc' = "poll"
               /\ call' = NoCall
               /\ ev' = "no_result"
               /\ UNCHANGED <<files, translation_history, transcript>>
          ELSE IF Args.target_language # ""
          THEN /\ vad_pc' = "translating"
               /\ call' = [call EXCEPT !.text = got.val,
                              !.messages = Messages(translation_history, got.val,
                                                    Args.target_language)]
               /\ ev' = "translate"
               /\ UNCHANGED <<files, translation_history, transcript, phrase, voiced_len, speaking,
                              silence_count>>
          ELSE Publish(got.val, None)

\* the translation request returns
TranslateReturn(resp) ==
    /\ vad_pc = "translating"
    /\ reply' = resp
    /\ UNCHANGED <<ui_vars, capture_vars, audio_buffer, log_file, was_session_active,
                   new_session, captured, drained, audit>>
    /\ Publish(call.text, TranslationOf(resp))

(* ---- the VAD + transcription loop (audio.rs 318-431) ---- *)
Rising(is_active, was) == is_active /\ ~was
Falling(is_active, was) == ~is_active /\ was

\* a gate that lets every cycle through
InactiveNever(is_active) == FALSE

\* if !is_active { continue; } (audio.rs 364-366)
Inactive(is_active) == ~is_active

\* the audit trail of samples
Audit(trail, samples) == IF audit THEN trail \o samples ELSE trail

\* a session end that leaves the display as it is
SessionEndKeepsDisplay ==
    /\ log_file' = 0
    /\ UNCHANGED transcript
    /\ ResetPhrase
    /\ was_session_active' = FALSE

\* the falling edge (audio.rs 355-362)
SessionEnd ==
    /\ log_file' = 0
    /\ transcript' = EmptyString
    /\ ResetPhrase
    /\ was_session_active' = FALSE

\* the VAD state machine on one batch of an active session (audio.rs 368-430)
VadStep(new_samples, rate) ==
    LET threshold == settings.silence_threshold
        is_voice == IsVoice(new_samples, threshold)
        grown == phrase \o new_samples
        silence == NextSilence(is_voice, silence_count)
        end == TrimEnd(Len(grown), silence, Len(new_samples))
    IN IF speaking
       THEN IF EndOfPhrase(silence, Len(grown), rate)
            THEN IF LongEnough(end, rate)
                 THEN \* send_transcription(&phrase[..end], ...) is entered
                      /\ phrase' = grown
                      /\ voiced_len' = IF is_voice THEN Len(grown) ELSE voiced_len
                      /\ silence_count' = silence
                      /\ vad_pc' = "transcribing"
                      /\ \E prefix \in {SubSeq(grown, 1, end)} :
                            call' = [samples |-> prefix, rate |-> rate,
                                     target_language |-> settings.target_language,
                                     display_mode |-> settings.display_mode,
                                     text |-> <<>>, messages |-> <<>>,
                                     wav |-> encode_wav(prefix, rate)]
                      /\ ev' = "dispatch"
                      /\ UNCHANGED speaking
                 ELSE /\ ResetPhrase
                      /\ ev' = "discard"
                      /\ UNCHANGED <<vad_pc, call>>
            ELSE /\ phrase' = grown
                 /\ voiced_len' = IF is_voice THEN Len(grown) ELSE voiced_len
                 /\ silence_count' = silence
                 /\ ev' = "continue"
                 /\ UNCHANGED <<speaking, vad_pc, call>>
       ELSE IF is_voice
            THEN /\ speaking' = TRUE
                 /\ silence_count' = 0
                 /\ phrase' = new_samples
                 /\ voiced_len' = Len(new_samples)
                 /\ ev' = "start"
                 /\ UNCHANGED <<vad_pc, call>>
            ELSE /\ ev' = "idle"
                 /\ UNCHANGED <<speaking, silence_count, phrase, voiced_len, vad_pc, call>>

\* one iteration of the loop body with a non-zero rate (audio.rs 333-430);
\* create_ok: whether File::create succeeds if this cycle opens a session file
Cycle(rate, create_ok) ==
    LET new_samples == Take(audio_buffer)[1]
        is_active == session_active
    IN /\ audio_buffer' = Take(audio_buffer)[2]
       /\ drained' = Audit(drained, new_samples)
       /\ IF new_samples = <<>>
          THEN /\ ev' = "empty"
               /\ UNCHANGED <<speaking, phrase, voiced_len, silence_count, log_file,
                              was_session_active, files, transcript, vad_pc, call,
                              new_session>>
          ELSE IF Rising(is_active, was_session_active)
          THEN /\ IF create_ok
                  THEN /\ files' = Append(files, <<>>)
                       /\ log_file' = Len(files) + 1
                  ELSE UNCHANGED <<files, log_file>>
               /\ was_session_active' = TRUE
               /\ new_session' = FALSE
               /\ UNCHANGED transcript
               /\ VadStep(new_samples, rate)
          ELSE IF Falling(is_active, was_session_active)
          THEN /\ SessionEnd
               /\ ev' = "session_end"
               /\ UNCHANGED <<files, vad_pc, call, new_session>>
          ELSE IF Inactive(is_active)
          THEN /\ ev' = "inactive"
               /\ UNCHANGED <<speaking, phrase, voiced_len, silence_count, log_file,
                              was_session_active, files, transcript, vad_pc, call,
                              new_session>>
          ELSE /\ new_session' = FALSE
               /\ UNCHANGED <<log_file, was_session_active, files, transcript>>
               /\ VadStep(new_samples, rate)

\* a loop that runs the cycle whatever the rate
PollCycleAnyRate(create_ok) ==
    /\ vad_pc = "poll"
    /\ running
    /\ UNCHANGED lock_vars
    /\ reply' = NoReply
    /\ UNCHANGED <<ui_vars, capture_vars, translation_history, captured, audit>>
    /\ Cycle(sample_rate, create_ok)

\* a loop whose falling edge clears the history along with the display
PollCycleClearsHistory(create_ok) ==
    /\ vad_pc = "poll"
    /\ running
    /\ UNCHANGED lock_vars
    /\ reply' = NoReply
    /\ UNCHANGED <<ui_vars, capture_vars, captured, audit>>
    /\ translation_history' =
          IF /\ sample_rate # 0
             /\ audio_buffer # <<>>
             /\ Falling(session_active, was_session_active)
          THEN <<>>
          ELSE translation_history
    /\ IF sample_rate = 0
       THEN /\ ev' = "no_rate"
            /\ UNCHANGED <<audio_buffer, drained, speaking, phrase, voiced_len, silence_count,
                           log_file, was_session_active, files, transcript, vad_pc, call,
                           new_session>>
       ELSE Cycle(sample_rate, create_ok)

\* while run.load() { sleep(50ms); ... }
PollCycle(create_ok) ==
    /\ vad_pc = "poll"
    /\ running
    /\ UNCHANGED lock_vars
    /\ reply' = NoReply
    /\ UNCHANGED <<ui_vars, capture_vars, translation_history, captured, audit>>
    /\ IF sample_rate = 0
       THEN /\ ev' = "no_rate"
            /\ UNCHANGED <<audio_buffer, drained, speaking, phrase, voiced_len, silence_count,
                           log_file, was_session_active, files, transcript, vad_pc, call,
                           new_session>>
       ELSE Cycle(sample_rate, create_ok)

\* a thread that sees the flag cleared and stays
VadLingers ==
    /\ vad_pc = "poll"
    /\ ~running
    /\ UNCHANGED vars

\* the loop condition fails: the thread ends
VadExit ==
    /\ vad_pc = "poll"
    /\ ~running
    /\ vad_at = "top"
    /\ UNCHANGED lock_vars
    /\ vad_pc' = "exited"
    /\ ev' = "exit"
    /\ reply' = NoReply
    /\ UNCHANGED <<ui_vars, capture_vars, audio_buffer, transcript, speaking, phrase, voiced_len,
                   silence_count, translation_history, log_file, was_session_active,
                   files, call, new_session, captured, drained, audit>>

(* ---- the capture thread (audio.rs 206-303) ---- *)
\* device and config lookup, *sr.lock() = rate, build_input_stream, play;
\* outcome: "no_device", "no_config", "build_failed", "play_failed", "ok"
CaptureStart(outcome, rate, ch) ==
    /\ capture_pc = "start"
    /\ UNCHANGED stream
    /\ UNCHANGED lock_vars
    /\ sample_rate' = IF outcome \in {"no_device", "no_config"} THEN sample_rate ELSE rate
    /\ channels' = IF outcome \in {"no_device", "no_config"} THEN channels ELSE ch
    /\ capture_pc' = IF outcome = "ok" THEN "streaming" ELSE "exited"
    /\ UNCHANGED <<ui_vars, vad_vars, audio_buffer, new_session, captured, drained, audit>>

\* a callback that loses its samples while a request is outstanding
InputCallbackBusyDrops(data) ==
    /\ capture_pc = "streaming"
    /\ audio_buffer' = IF vad_pc \in {"transcribing", "translating"} THEN audio_buffer
                       ELSE audio_buffer \o Mono(data, channels)
    /\ captured' = Audit(captured, Mono(data, channels))
    /\ UNCHANGED <<ui_vars, vad_vars, capture_vars, new_session, drained, audit>>

\* a stream that outlives the thread that built it
InputCallbackOrphan(data) ==
    /\ capture_pc = "streaming" \/ (capture_pc = "exited" /\ channels > 0)
    /\ audio_buffer' = audio_buffer \o Mono(data, channels)
    /\ captured' = Audit(captured, Mono(data, channels))
    /\ UNCHANGED <<ui_vars, vad_vars, capture_vars, new_session, drained, audit>>

\* the input callback of the stream
InputCallback(data) ==
    /\ capture_pc = "streaming"
    /\ audio_buffer' = audio_buffer \o Pushed(data, channels, stream.format)
    /\ captured' = Audit(captured, Pushed(data, channels, stream.format))
    /\ UNCHANGED <<ui_vars, vad_vars, capture_vars, new_session, drained, audit>>

\* while run.load() { sleep(100ms) } ends and the stream is dropped
CaptureExit ==
    /\ capture_pc = "streaming"
    /\ UNCHANGED stream
    /\ ~running
    /\ UNCHANGED lock_vars
    /\ capture_pc' = "exited"
    /\ UNCHANGED <<ui_vars, vad_vars, audio_buffer, sample_rate, channels, new_session,
                   captured, drained, audit>>

(* ---- the UI side ---- *)
\* the owner of session_active stores the other value
SessionToggle ==
    /\ session_active' = ~session_active
    /\ new_session' = ~session_active
    /\ UNCHANGED lock_vars
    /\ UNCHANGED <<running, settings, vad_vars, capture_vars, audio_buffer, captured,
                   drained, audit>>

\* App::update writes the edited settings back (app.rs 412-426)
SettingsWrite(s) ==
    /\ settings # s
    /\ settings' = s
    /\ UNCHANGED lock_vars
    /\ UNCHANGED <<running, session_active, vad_vars, capture_vars, audio_buffer,
                   new_session, captured, drained, audit>>

\* Drop for App: running.store(false) (app.rs 173-177)
Shutdown ==
    /\ running
    /\ running' = FALSE
    /\ UNCHANGED lock_vars
    /\ UNCHANGED <<session_active, settings, vad_vars, capture_vars, audio_buffer,
                   new_session, captured, drained, audit>>

(* ---- inputs ---- *)
\* impl Default for Settings, the threshold 0.003 standing as 1
DefaultSettings ==
    [silence_threshold |-> 1, target_language |-> "en", display_mode |-> "TranslationOnly"]
BothSettings ==
    [silence_threshold |-> 1, target_language |-> "en", display_mode |-> "Both"]
PlainSettings ==
    [silence_threshold |-> 1, target_language |-> "", display_mode |-> "Both"]

Failures ==
    {Response("error", <<>>), Response("not_json", <<>>), Response("no_text", <<>>)}
Texts(raw) == {Response("text", t) : t \in raw}

StartOutcomes == {"no_device", "no_config", "build_failed", "play_failed", "ok"}

\* the interleaved data of an ordinary callback: 1..MaxBuffer frames of any amplitudes
OrdinaryData(ch) == UNION {[1..(n * ch) -> Amps] : n \in 1..MaxBuffer}

\* the data of the callback that follows a stall: StallChunk frames of one amplitude
StallData(ch) == {[i \in 1..(StallChunk * ch) |-> a] : a \in Amps}

\* the samples of s that are not silent
Loud(s) == Cardinality({i \in DOMAIN s : s[i] # 0})

\* the model keeps the buffer small, and one phrase short with few loud samples,
\* unless the phrase is past the cap already and the next batch ends it
Fits(data, ch, cap, loud, room) ==
    /\ Len(audio_buffer) + Len(Mono(data, ch)) <= cap
    /\ \/ Loud(Mono(data, ch)) = 0
       \/ Loud(phrase) + Loud(audio_buffer) + Loud(Mono(data, ch)) <= loud
    /\ \/ Len(phrase) + Len(audio_buffer) + Len(Mono(data, ch)) <= room
       \/ PhraseTooLong(Len(phrase), sample_rate)

StartStream(rates, chs) ==
    \E outcome \in StartOutcomes : \E rate \in rates : \E ch \in chs :
        CaptureStart(outcome, rate, ch)

Callbacks ==
    \E data \in OrdinaryData(channels) :
        /\ Fits(data, channels, MaxBuffer, MaxVoiced, MaxPhrase)
        /\ InputCallback(data)
        /\ UNCHANGED lock_vars

StallCallbacks ==
    \E data \in StallData(channels) :
        /\ Fits(data, channels, StallChunk, StallChunk, StallChunk + MaxBuffer)
        /\ InputCallback(data)
        /\ UNCHANGED lock_vars

Polls ==
    \E create_ok \in BOOLEAN :
        (create_ok => Len(files) < MaxFiles) /\ PollCycle(create_ok)

Transcribed(resps) == \E resp \in resps : TranscribeReturn(resp) /\ UNCHANGED lock_vars

Translated(resps) == \E resp \in resps : TranslateReturn(resp) /\ UNCHANGED lock_vars

Edits(values) == \E s \in values : SettingsWrite(s)

\* no lock is held, each thread is at the top of its loop
Unlocked ==
    /\ owner = [l \in Locks |-> "free"]
    /\ vad_at = "top"
    /\ ui_at = "frame"
    /\ local = [rate |-> 0, new_samples |-> <<>>, started_with |-> DefaultSettings]

\* the default input config of the device has format F32
F32Stream == stream = [format |-> "F32", data |-> <<>>]

\* the state after start_audio_and_transcription has spawned both threads
Started(trail) ==
    /\ running = TRUE
    /\ session_active = FALSE
    /\ settings = DefaultSettings
    /\ transcript = EmptyString
    /\ audio_buffer = <<>>
    /\ sample_rate = 0
    /\ capture_pc = "start"
    /\ channels = 0
    /\ vad_pc = "poll"
    /\ speaking = FALSE
    /\ phrase = <<>>
    /\ silence_count = 0
    /\ translation_history = <<>>
    /\ log_file = 0
    /\ was_session_active = FALSE
    /\ files = <<>>
    /\ call = NoCall
    /\ ev = "none"
    /\ reply = NoReply
    /\ voiced_len = 0
    /\ new_session = FALSE
    /\ captured = <<>>
    /\ drained = <<>>
    /\ audit = trail
    /\ Unlocked
    /\ F32Stream

Init == Started(FALSE)

(* ---- Spec: the running pipeline, the transcription service giving no usable text ---- *)
Next ==
    \/ StartStream({2}, {1})
    \/ Callbacks
    \/ StallCallbacks
    \/ Polls
    \/ Transcribed(Failures \cup Texts({<<" ">>}))
    \/ SessionToggle

Spec == Init /\ [][Next]_vars

(* ---- SpecDispatch: short phrases cut by a stall, the services answering ---- *)
\* two voiced frames
DispatchData == {<<2, 2>>}

DispatchCallbacks ==
    \E data \in DispatchData :
        /\ Fits(data, channels, MaxBuffer, MaxVoiced, MaxPhrase)
        /\ InputCallback(data)
        /\ UNCHANGED lock_vars

\* the service answers with a text while the session file, if any, is empty
Answered(resps) ==
    \E resp \in resps :
        /\ (resp.kind = "text" /\ log_file # 0) => files[log_file] = <<>>
        /\ TranscribeReturn(resp)
        /\ UNCHANGED lock_vars

NextDispatch ==
    \/ StartStream({0, 2}, {1})
    \/ DispatchCallbacks
    \/ StallCallbacks
    \/ Polls
    \/ Answered(Failures \cup Texts({<<" ">>, <<"a">>, <<" ", "b", " ">>}))
    \/ Translated({Response("error", <<>>)} \cup Texts({<<" ">>, <<"x", " ">>}))
    \/ SessionToggle

SpecDispatch == Init /\ [][NextDispatch]_vars

(* ---- SpecOrder: callbacks and polls interleaved, every sample on the audit trail ---- *)
InitOrder == Started(TRUE)

OrderCallbacks ==
    \E data \in OrdinaryData(channels) :
        /\ Len(captured) + Len(Mono(data, channels)) <= MaxAudit
        /\ InputCallback(data)
        /\ UNCHANGED lock_vars

NextOrder ==
    \/ StartStream({2}, {1})
    \/ OrderCallbacks
    \/ Polls
    \/ SessionToggle

SpecOrder == InitOrder /\ [][NextOrder]_vars

(* ---- SpecLive: the whole life of the pipeline, the VAD thread never starved ---- *)
\* two voiced frames, or the silent frames that follow a stall
LiveCallbacks ==
    \/ DispatchCallbacks
    \/ \E data \in {d \in StallData(channels) : Loud(d) = 0} :
          /\ Fits(data, channels, StallChunk, StallChunk, StallChunk + MaxBuffer)
          /\ InputCallback(data)
          /\ UNCHANGED lock_vars

LiveAnswered == Answered({Response("error", <<>>)} \cup Texts({<<"a">>}))

LiveTranslated == Translated(Texts({<<"x">>}))

NextLive ==
    \/ StartStream({2}, {1})
    \/ LiveCallbacks
    \/ Polls
    \/ LiveAnswered
    \/ LiveTranslated
    \/ SessionToggle
    \/ Shutdown
    \/ VadExit
    \/ CaptureExit

\* the loop sleeps 50 ms and runs again; each request ends within the client's 30 s
\* timeout (audio.rs 311-313)
SpecLive ==
    /\ Init
    /\ [][NextLive]_vars
    /\ WF_vars(Polls)
    /\ WF_vars(VadExit)
    /\ WF_vars(LiveAnswered)
    /\ WF_vars(LiveTranslated)

(* ---- SpecStop: SpecLive with a capture thread that is never starved either ---- *)
\* the capture thread runs its start-up, then looks at the flag every 100 ms
\* (audio.rs 212-301)
SpecStop ==
    /\ Init
    /\ [][NextLive]_vars
    /\ WF_vars(Polls)
    /\ WF_vars(VadExit)
    /\ WF_vars(LiveAnswered)
    /\ WF_vars(LiveTranslated)
    /\ WF_vars(StartStream({2}, {1}))
    /\ WF_vars(CaptureExit)

(* ---- SpecSettings: the settings edited while phrases are dispatched ---- *)
SettingsTranslated == Translated(Failures \cup Texts({<<" ">>, <<"x", " ">>}))

NextSettings ==
    \/ StartStream({2}, {1})
    \/ LiveCallbacks
    \/ Polls
    \/ LiveAnswered
    \/ SettingsTranslated
    \/ SessionToggle
    \/ Edits({DefaultSettings, BothSettings, PlainSettings})

SpecSettings == Init /\ [][NextSettings]_vars

(* ---- SpecLocks: the threads lock by lock ---- *)
\* Here a poll cycle is not one action: every Mutex::lock is a step that waits for the
\* Mutex to be free, and the drop of its guard is the step that follows.  Between the
\* two the thread is seen to hold the lock.

\* what the threads share and own, the locks aside
vad_state == <<transcript, vad_pc, speaking, phrase, silence_count, translation_history,
               log_file, was_session_active, files, call, voiced_len>>
audit_vars == <<new_session, captured, drained, audit>>

\* the locks a thread holds
Held(t) == {l \in Locks : owner[l] = t}

\* Mutex::lock by thread t: it returns once the Mutex is free
Lock(l, t) == owner[l] = "free" /\ owner' = [owner EXCEPT ![l] = t]

\* the sample buffer guard of the VAD thread kept past its block
UnlockButDrain(o, l) ==
    IF l = "audio_buffer" /\ o[l] = "vad" THEN o ELSE [o EXCEPT ![l] = "free"]

\* the guard is dropped at the end of its statement or block
Unlock(o, l) == [o EXCEPT ![l] = "free"]

\* while run.load() { sleep(50ms); let rate = *sr.lock().unwrap(); (audio.rs 325-328)
VadLockRate ==
    /\ vad_pc = "poll"
    /\ vad_at = "top"
    /\ running
    /\ Lock("sample_rate", "vad")
    /\ vad_at' = "rate"
    /\ local' = [local EXCEPT !.started_with = settings]
    /\ UNCHANGED <<ui_vars, vad_vars, capture_vars, audio_buffer, audit_vars, ui_at>>

\* the rate is copied out; if rate == 0 { continue; } (audio.rs 328-331)
VadReadRate ==
    /\ vad_at = "rate"
    /\ owner' = Unlock(owner, "sample_rate")
    /\ local' = [local EXCEPT !.rate = sample_rate]
    /\ reply' = NoReply
    /\ IF sample_rate = 0
       THEN vad_at' = "top" /\ ev' = "no_rate"
       ELSE vad_at' = "drain" /\ UNCHANGED ev
    /\ UNCHANGED <<ui_vars, vad_state, capture_vars, audio_buffer, audit_vars, ui_at>>

\* let mut b = buf.lock().unwrap(); (audio.rs 334)
VadLockBuffer ==
    /\ vad_at = "drain"
    /\ Lock("audio_buffer", "vad")
    /\ vad_at' = "take"
    /\ UNCHANGED <<ui_vars, vad_vars, capture_vars, audio_buffer, audit_vars, ui_at, local>>

\* std::mem::take(&mut *b) }; if new_samples.is_empty() { continue; } (audio.rs 335-340)
VadDrain ==
    /\ vad_at = "take"
    /\ owner' = Unlock(owner, "audio_buffer")
    /\ local' = [local EXCEPT !.new_samples = Take(audio_buffer)[1]]
    /\ audio_buffer' = Take(audio_buffer)[2]
    /\ drained' = Audit(drained, Take(audio_buffer)[1])
    /\ IF Take(audio_buffer)[1] = <<>>
       THEN vad_at' = "top" /\ ev' = "empty"
       ELSE vad_at' = "session" /\ UNCHANGED ev
    /\ UNCHANGED <<ui_vars, vad_state, reply, capture_vars, new_session, captured, audit,
                   ui_at>>

\* the session flag is loaded and compared with was_session_active; on the falling edge
\* the thread goes for the transcript lock (audio.rs 342-366)
VadSession(create_ok) ==
    /\ vad_at = "session"
    /\ LET is_active == session_active
       IN IF Rising(is_active, was_session_active)
          THEN /\ IF create_ok
                  THEN /\ files' = Append(files, <<>>)
                       /\ log_file' = Len(files) + 1
                  ELSE UNCHANGED <<files, log_file>>
               /\ was_session_active' = TRUE
               /\ new_session' = FALSE
               /\ vad_at' = "settings"
               /\ UNCHANGED <<owner, ev>>
          ELSE IF Falling(is_active, was_session_active)
          THEN /\ Lock("transcript", "vad")
               /\ vad_at' = "clear"
               /\ UNCHANGED <<files, log_file, was_session_active, new_session, ev>>
          ELSE IF Inactive(is_active)
          THEN /\ vad_at' = "top"
               /\ ev' = "inactive"
               /\ UNCHANGED <<owner, files, log_file, was_session_active, new_session>>
          ELSE /\ new_session' = FALSE
               /\ vad_at' = "settings"
               /\ UNCHANGED <<owner, files, log_file, was_session_active, ev>>
    /\ UNCHANGED <<ui_vars, capture_vars, audio_buffer, transcript, vad_pc, speaking, phrase,
                   silence_count, translation_history, call, reply, voiced_len, captured,
                   drained, audit, ui_at, local>>

\* *transcript.lock().unwrap() = String::new(); and the rest of the falling edge
\* (audio.rs 355-362)
VadClearDisplay ==
    /\ vad_at = "clear"
    /\ owner' = Unlock(owner, "transcript")
    /\ SessionEnd
    /\ ev' = "session_end"
    /\ vad_at' = "top"
    /\ UNCHANGED <<ui_vars, capture_vars, audio_buffer, vad_pc, translation_history, files,
                   call, reply, audit_vars, ui_at, local>>

\* let s = settings.lock().unwrap(); (audio.rs 369)
VadLockSettings ==
    /\ vad_at = "settings"
    /\ Lock("settings", "vad")
    /\ vad_at' = "snapshot"
    /\ UNCHANGED <<ui_vars, vad_vars, capture_vars, audio_buffer, audit_vars, ui_at, local>>

\* a loop that calls send_transcription inside the block of the settings guard
VadSnapshotCallsInside ==
    /\ vad_at = "snapshot"
    /\ VadStep(local.new_samples, local.rate)
    /\ owner' = IF vad_pc' = "transcribing" THEN owner ELSE Unlock(owner, "settings")
    /\ vad_at' = IF vad_pc' = "transcribing" THEN "call" ELSE "top"
    /\ reply' = NoReply
    /\ UNCHANGED <<ui_vars, capture_vars, audio_buffer, transcript, translation_history,
                   log_file, was_session_active, files, audit_vars, ui_at, local>>

\* the values are cloned out, the guard is dropped and the state machine runs on them
\* (audio.rs 370-430)
VadSnapshot ==
    /\ vad_at = "snapshot"
    /\ owner' = Unlock(owner, "settings")
    /\ VadStep(local.new_samples, local.rate)
    /\ vad_at' = IF vad_pc' = "transcribing" THEN "call" ELSE "top"
    /\ reply' = NoReply
    /\ UNCHANGED <<ui_vars, capture_vars, audio_buffer, transcript, translation_history,
                   log_file, was_session_active, files, audit_vars, ui_at, local>>

\* where a return of send_transcription leaves the thread: with the transcript lock if
\* it has a display to publish (audio.rs 186)
AfterReturn ==
    IF ev' \in {"published", "published_evicting"}
    THEN /\ Lock("transcript", "vad")
         /\ vad_at' = "publish"
    ELSE /\ vad_at' = IF vad_pc' = "poll" THEN "top" ELSE "call"
         /\ UNCHANGED owner

\* the service answers with a text while the history and the session file, if any, are
\* empty
VadTranscribed(resps) ==
    \E resp \in resps :
        /\ vad_at = "call"
        /\ resp.kind = "text" => translation_history = <<>>
        /\ (resp.kind = "text" /\ log_file # 0) => files[log_file] = <<>>
        /\ TranscribeReturn(resp)
        /\ AfterReturn
        /\ UNCHANGED <<ui_at, local>>

VadTranslated(resps) ==
    \E resp \in resps :
        /\ vad_at = "call"
        /\ TranslateReturn(resp)
        /\ AfterReturn
        /\ UNCHANGED <<ui_at, local>>

\* the display is stored and the guard dropped (audio.rs 186)
VadPublished ==
    /\ vad_at = "publish"
    /\ owner' = Unlock(owner, "transcript")
    /\ vad_at' = "top"
    /\ UNCHANGED <<ui_vars, vad_vars, capture_vars, audio_buffer, audit_vars, ui_at, local>>

\* the capture thread finds its device and config, or returns (audio.rs 212-242)
CaptureLookup(outcome, ch) ==
    /\ capture_pc = "start"
    /\ UNCHANGED stream
    /\ IF outcome \in {"no_device", "no_config"}
       THEN capture_pc' = "exited" /\ UNCHANGED channels
       ELSE capture_pc' = "config" /\ channels' = ch
    /\ UNCHANGED <<ui_vars, vad_vars, sample_rate, audio_buffer, audit_vars, lock_vars>>

\* *sr.lock().unwrap() = supported.sample_rate().0; (audio.rs 244)
CaptureLockRate ==
    /\ capture_pc = "config"
    /\ UNCHANGED stream
    /\ Lock("sample_rate", "capture")
    /\ capture_pc' = "rate"
    /\ UNCHANGED <<ui_vars, vad_vars, sample_rate, channels, audio_buffer, audit_vars,
                   vad_at, ui_at, local>>

CaptureWriteRate(rate) ==
    /\ capture_pc = "rate"
    /\ UNCHANGED stream
    /\ owner' = Unlock(owner, "sample_rate")
    /\ sample_rate' = rate
    /\ capture_pc' = "build"
    /\ UNCHANGED <<ui_vars, vad_vars, channels, audio_buffer, audit_vars, vad_at, ui_at,
                   local>>

\* a thread that takes the rate back when the stream fails
CaptureBuildClearsRate(outcome) ==
    /\ capture_pc = "build"
    /\ UNCHANGED stream
    /\ capture_pc' = IF outcome = "ok" THEN "streaming" ELSE "exited"
    /\ sample_rate' = IF outcome = "ok" THEN sample_rate ELSE 0
    /\ UNCHANGED <<ui_vars, vad_vars, channels, audio_buffer, audit_vars, lock_vars>>

\* build_input_stream and play succeed, or the thread panics (audio.rs 248-297)
CaptureBuild(outcome) ==
    /\ capture_pc = "build"
    /\ UNCHANGED stream
    /\ capture_pc' = IF outcome = "ok" THEN "streaming" ELSE "exited"
    /\ UNCHANGED <<ui_vars, vad_vars, sample_rate, channels, audio_buffer, audit_vars,
                   lock_vars>>

\* the callback locks the buffer and pushes its samples (audio.rs 255-264, 275-288)
CallbackLock(data) ==
    /\ Lock("audio_buffer", "callback")
    /\ InputCallback(data)
    /\ UNCHANGED <<vad_at, ui_at, local>>

\* the callback returns
CallbackReturn ==
    /\ owner["audio_buffer"] = "callback"
    /\ owner' = Unlock(owner, "audio_buffer")
    /\ UNCHANGED <<ui_vars, vad_vars, capture_vars, audio_buffer, audit_vars, vad_at, ui_at,
                   local>>

\* let mut s = self.settings.lock().unwrap(); s.... = self.edit_...; (app.rs 413-425)
UiWriteBack(s) ==
    /\ ui_at = "frame"
    /\ Lock("settings", "ui")
    /\ settings' = s
    /\ ui_at' = "write_back"
    /\ UNCHANGED <<running, session_active, vad_vars, capture_vars, audio_buffer, audit_vars,
                   vad_at, local>>

\* s.save(); } (app.rs 426-427)
UiSaved ==
    /\ ui_at = "write_back"
    /\ owner' = Unlock(owner, "settings")
    /\ ui_at' = "panel"
    /\ UNCHANGED <<ui_vars, vad_vars, capture_vars, audio_buffer, audit_vars, vad_at, local>>

\* let text = self.transcript.lock().unwrap().clone(); (app.rs 439), with or without the
\* settings window before it
UiLockTranscript ==
    /\ ui_at \in {"frame", "panel"}
    /\ Lock("transcript", "ui")
    /\ ui_at' = "read"
    /\ UNCHANGED <<ui_vars, vad_vars, capture_vars, audio_buffer, audit_vars, vad_at, local>>

UiRead ==
    /\ ui_at = "read"
    /\ owner' = Unlock(owner, "transcript")
    /\ ui_at' = "buttons"
    /\ UNCHANGED <<ui_vars, vad_vars, capture_vars, audio_buffer, audit_vars, vad_at, local>>

\* the settings button opens the window: let s = self.settings.lock().unwrap();
\* (app.rs 495-498)
UiLoad ==
    /\ ui_at = "buttons"
    /\ Lock("settings", "ui")
    /\ ui_at' = "load"
    /\ UNCHANGED <<ui_vars, vad_vars, capture_vars, audio_buffer, audit_vars, vad_at, local>>

\* drop(s); (app.rs 510)
UiLoaded ==
    /\ ui_at = "load"
    /\ owner' = Unlock(owner, "settings")
    /\ ui_at' = "frame"
    /\ UNCHANGED <<ui_vars, vad_vars, capture_vars, audio_buffer, audit_vars, vad_at, local>>

\* the frame ends without a click on the settings button
UiFrameEnd ==
    /\ ui_at = "buttons"
    /\ ui_at' = "frame"
    /\ UNCHANGED <<ui_vars, vad_vars, capture_vars, audio_buffer, audit_vars, owner, vad_at,
                   local>>

\* settings that differ from the default ones in threshold, target language and display
\* mode; the threshold is above every amplitude
OtherSettings ==
    [silence_threshold |-> 3, target_language |-> "", display_mode |-> "Both"]

LockedStart ==
    \/ \E outcome \in {"no_device", "no_config", "found"} : CaptureLookup(outcome, 1)
    \/ CaptureLockRate
    \/ CaptureWriteRate(2)
    \/ \E outcome \in {"build_failed", "play_failed", "ok"} : CaptureBuild(outcome)

LockedCallbacks ==
    \/ \E data \in DispatchData :
          /\ Fits(data, channels, MaxBuffer, MaxVoiced, MaxPhrase)
          /\ CallbackLock(data)
    \/ \E data \in {d \in StallData(channels) : Loud(d) = 0} :
          /\ Fits(data, channels, StallChunk, StallChunk, StallChunk + MaxBuffer)
          /\ CallbackLock(data)
    \/ CallbackReturn

LockedCycle ==
    \/ VadLockRate
    \/ VadReadRate
    \/ VadLockBuffer
    \/ VadDrain
    \/ VadSession(Len(files) < MaxFiles)
    \/ VadClearDisplay
    \/ VadLockSettings
    \/ VadSnapshot

LockedCalls ==
    \/ VadTranscribed({Response("error", <<>>)} \cup Texts({<<"a">>}))
    \/ VadTranslated({Response("error", <<>>)} \cup Texts({<<"x">>}))
    \/ VadPublished

LockedUi ==
    \/ \E s \in {DefaultSettings, OtherSettings} : UiWriteBack(s)
    \/ UiSaved
    \/ UiLockTranscript
    \/ UiRead
    \/ UiLoad
    \/ UiLoaded
    \/ UiFrameEnd

NextLocks ==
    \/ LockedStart
    \/ LockedCallbacks
    \/ LockedCycle
    \/ LockedCalls
    \/ LockedUi
    \/ SessionToggle

SpecLocks == Init /\ [][NextLocks]_vars

(* ---- SpecMix: the input callback on its own ---- *)
\* channel values whose averages over ch channels are whole amplitudes: F32 values that
\* are multiples of ch, I16 values that are multiples of 12288 (0.375 of full scale) and
\* of ch
MixValues(fmt, ch) ==
    IF fmt = "I16"
    THEN {v \in {0 - 24576, 0 - 12288, 0, 12288, 24576} : v % (12288 * ch) = 0}
    ELSE {0 - 2 * ch, 0, 2 * ch, 3 * ch}

\* the streams: format and channel count
MixStreams == {<<"F32", 1>>, <<"F32", 2>>, <<"F32", 3>>, <<"I16", 1>>, <<"I16", 2>>}

\* slices of 0..MaxFrames complete frames
MixData(fmt, ch) == UNION {[1..(n * ch) -> MixValues(fmt, ch)] : n \in 0..MaxFrames}

\* a stream is running and its callback is about to be given a slice
InitMix ==
    /\ \E st \in MixStreams : \E data \in MixData(st[1], st[2]) :
          /\ stream = [format |-> st[1], data |-> data]
          /\ channels = st[2]
    /\ running = TRUE
    /\ session_active = FALSE
    /\ settings = DefaultSettings
    /\ transcript = EmptyString
    /\ audio_buffer = <<>>
    /\ sample_rate = 2
    /\ capture_pc = "streaming"
    /\ vad_pc = "poll"
    /\ speaking = FALSE
    /\ phrase = <<>>
    /\ silence_count = 0
    /\ translation_history = <<>>
    /\ log_file = 0
    /\ was_session_active = FALSE
    /\ files = <<>>
    /\ call = NoCall
    /\ ev = "none"
    /\ reply = NoReply
    /\ voiced_len = 0
    /\ new_session = FALSE
    /\ captured = <<>>
    /\ drained = <<>>
    /\ audit = TRUE
    /\ Unlocked

\* the callback is called with the slice, twice at most
MixCallback ==
    /\ Len(captured) <= Len(stream.data) \div channels
    /\ InputCallback(stream.data)
    /\ UNCHANGED lock_vars

NextMix == MixCallback

SpecMix == InitMix /\ [][NextMix]_vars

(* ---- SpecWav: encode_wav on its own ---- *)
\* below, at and above full scale, and small values of either sign
WavAmps == {0 - 400, 0 - 1, 0, 333, 400}
WavRates == {1, 2, 255, 256, 16000, 44100, 48000, 1073741823}
WavSamples ==
    UNION {[1..n -> WavAmps] : n \in 0..MaxWav} \cup {[i \in 1..WavLong |-> a] : a \in WavAmps}

\* send_transcription is entered with samples and rate
InitWav ==
    /\ \E samples \in WavSamples : \E rate \in WavRates :
          /\ call = [NoCall EXCEPT !.samples = samples, !.rate = rate]
          /\ sample_rate = rate
          /\ phrase = samples
          /\ voiced_len = Len(samples)
    /\ running = TRUE
    /\ session_active = TRUE
    /\ settings = DefaultSettings
    /\ transcript = EmptyString
    /\ audio_buffer = <<>>
    /\ capture_pc = "streaming"
    /\ channels = 1
    /\ vad_pc = "encode"
    /\ speaking = TRUE
    /\ silence_count = 0
    /\ translation_history = <<>>
    /\ log_file = 0
    /\ was_session_active = TRUE
    /\ files = <<>>
    /\ ev = "dispatch"
    /\ reply = NoReply
    /\ new_session = FALSE
    /\ captured = <<>>
    /\ drained = <<>>
    /\ audit = FALSE
    /\ Unlocked
    /\ F32Stream

\* let wav = encode_wav(samples, rate); (audio.rs 122)
EncodeStep ==
    /\ vad_pc = "encode"
    /\ call' = [call EXCEPT !.wav = encode_wav(call.samples, call.rate)]
    /\ vad_pc' = "transcribing"
    /\ UNCHANGED <<ui_vars, capture_vars, audio_buffer, transcript, speaking, phrase, voiced_len,
                   silence_count, translation_history, log_file, was_session_active,
                   files, ev, reply, new_session, captured, drained, audit, lock_vars>>

NextWav == EncodeStep

SpecWav == InitWav /\ [][NextWav]_vars

(* ---- what the claims speak of ---- *)
\* a poll cycle takes a non-empty batch (the batch is audio_buffer before the step)
PollsBatch ==
    /\ vad_pc = "poll"
    /\ sample_rate # 0
    /\ audio_buffer # <<>>
    /\ audio_buffer' = <<>>

\* ... and observes the session flag set
ActiveBatch == PollsBatch /\ session_active

\* the batch is voiced: its root mean square is above the threshold
RmsAbove(batch, threshold) == SumSq(batch) > threshold * threshold * Len(batch)

\* the step ends the phrase
Finalizes == ev' \in {"dispatch", "discard"}

\* the cap on the samples of one phrase
PhraseCap == sample_rate * MAX_PHRASE_SECS

\* C1: in an active session, a poll cycle that finds the segmenter Idle keeps it Idle with
\* an empty accumulator when the batch has rms <= silence_threshold, and moves it to
\* Speaking with silence counter 0 and the accumulator equal to the batch otherwise.
C1_IdleBatch ==
    [][(ActiveBatch /\ ~speaking) =>
          IF RmsAbove(audio_buffer, settings.silence_threshold)
          THEN speaking' /\ silence_count' = 0 /\ phrase' = audio_buffer
          ELSE ~speaking' /\ phrase' = <<>> /\ phrase = <<>>]_vars

\* a phrase was started by a batch of two samples, one of them silent
C1_Witness ==
    /\ ev = "start"
    /\ speaking
    /\ silence_count = 0
    /\ Len(phrase) = 2
    /\ Loud(phrase) = 1

\* C2 as stated: while Speaking, the cycle that takes the N-th consecutive silent batch
\* ends the phrase exactly when N = SILENCE_CHUNKS_TO_END.
C2_Original ==
    [][(ActiveBatch /\ speaking /\ ~RmsAbove(audio_buffer, settings.silence_threshold)) =>
          (Finalizes <=> silence_count + 1 = SILENCE_CHUNKS_TO_END)]_vars

\* C2 amended: while Speaking and as long as the accumulated phrase, the batch included,
\* does not exceed the cap, the cycle that takes the N-th consecutive silent batch ends
\* the phrase exactly when N = SILENCE_CHUNKS_TO_END and counts it otherwise, and a voiced
\* batch does not end the phrase and resets the count to 0.
C2_SilenceEnd ==
    [][(ActiveBatch /\ speaking /\ Len(phrase) + Len(audio_buffer) <= PhraseCap) =>
          IF RmsAbove(audio_buffer, settings.silence_threshold)
          THEN ~Finalizes /\ silence_count' = 0
          ELSE /\ Finalizes <=> silence_count + 1 = SILENCE_CHUNKS_TO_END
               /\ ~Finalizes => silence_count' = silence_count + 1]_vars

\* the tenth silent batch ended a phrase that a voiced batch had kept alive
C2_Witness ==
    /\ vad_pc = "transcribing"
    /\ silence_count = SILENCE_CHUNKS_TO_END
    /\ Len(phrase) <= PhraseCap
    /\ Loud(phrase) = 2
    /\ Len(phrase) > SILENCE_CHUNKS_TO_END
    /\ phrase[Len(phrase) - SILENCE_CHUNKS_TO_END] # 0

\* C3 as stated: the accumulator held at the end of a poll cycle has at most
\* sample_rate * MAX_PHRASE_SECS samples.
C3_Original == vad_pc = "poll" => Len(phrase) <= PhraseCap

\* the trimmed prefix of a cycle that ends the phrase, from the state before the cycle
ClaimedEnd ==
    LET n == IF RmsAbove(audio_buffer, settings.silence_threshold) THEN 0
             ELSE silence_count + 1
        len == Len(phrase) + Len(audio_buffer)
        trim == n * Len(audio_buffer)
    IN IF len > trim THEN len - trim ELSE 0

\* C4: a cycle that ends the phrase issues the transcription call if and only if the
\* trimmed prefix has more than sample_rate / 2 samples, and hands it that prefix; otherwise
\* no request is made and the display, the log and the history stay as they are.
C4_DispatchIffLong ==
    [][(ActiveBatch /\ Finalizes) =>
          IF 2 * ClaimedEnd > sample_rate
          THEN /\ vad_pc' = "transcribing"
               /\ call'.samples = SubSeq(phrase \o audio_buffer, 1, ClaimedEnd)
          ELSE /\ vad_pc' = "poll"
               /\ UNCHANGED <<transcript, files, translation_history, call>>]_vars

\* a phrase one sample longer than half a second is being transcribed
C4_Witness ==
    /\ vad_pc = "transcribing"
    /\ Len(call.samples) = (sample_rate \div 2) + 1

\* C5 as stated: the first batch processed after the flag went from false to true finds
\* the segmenter Idle with an empty accumulator and a zero silence counter.
C5_Original ==
    [][(ActiveBatch /\ new_session) =>
          (~speaking /\ phrase = <<>> /\ silence_count = 0)]_vars

\* C7: a poll cycle that observes the session flag clear when the last observed value was
\* clear too (a falling edge, if any, has been processed) finds the accumulator empty, the
\* segmenter Idle and the display empty, and changes none of the VAD thread's state.
C7_SessionEndIdempotent ==
    [][(PollsBatch /\ ~session_active /\ ~was_session_active) =>
          /\ phrase = <<>> /\ ~speaking /\ silence_count = 0
          /\ transcript = EmptyString /\ log_file = 0
          /\ vad_pc' = "poll"
          /\ UNCHANGED <<phrase, speaking, silence_count, transcript, log_file, files,
                         translation_history, was_session_active, call>>]_vars

\* a session that had published a translation has ended, and a later cycle saw the flag
\* clear again
C7_Witness ==
    /\ ev = "inactive"
    /\ ~was_session_active
    /\ translation_history # <<>>
    /\ files # <<>>
    /\ transcript = EmptyString

\* the request being sent carries the turns of the history, oldest first, between the
\* system message and the text
ContextIs(messages, history, text) ==
    /\ Len(messages) = 2 * Len(history) + 2
    /\ messages[Len(messages)] = [role |-> "user", content |-> text]
    /\ \A i \in 1..Len(history) :
          /\ messages[2 * i] = [role |-> "user", content |-> history[i][1]]
          /\ messages[2 * i + 1] = [role |-> "assistant", content |-> history[i][2]]

\* C9: the history never holds more than HISTORY_LEN pairs; a successful translation
\* that finds it full leaves its second and third pair followed by the new one, and every
\* translation request carries exactly the pairs the history holds when it is made.
C9_HistoryBound ==
    [][/\ Len(translation_history') <= HISTORY_LEN
       /\ (vad_pc = "translating" /\ vad_pc' = "poll" /\ reply'.kind = "text"
              /\ Trim(reply'.text) # <<>>) =>
             LET pair == <<call.text, Trim(reply'.text)>>
             IN IF Len(translation_history) = HISTORY_LEN
                THEN translation_history' =
                        <<translation_history[2], translation_history[3], pair>>
                ELSE translation_history' = Append(translation_history, pair)
       /\ (vad_pc = "transcribing" /\ vad_pc' = "translating") =>
             ContextIs(call'.messages, translation_history, call'.text)]_vars

\* a fourth translation pushed out the oldest pair, whose text differed from the new one
C9_Witness ==
    /\ ev = "published_evicting"
    /\ Len(translation_history) = HISTORY_LEN
    /\ translation_history[1][1] # translation_history[3][1]

\* the response is a transport error, not JSON, without a string text, or blank
NoTranscript(resp) ==
    \/ resp.kind \in {"error", "not_json", "no_text"}
    \/ resp.kind = "text" /\ Trim(resp.text) = <<>>

\* C10: when the transcription request returns a transport error, a body that is not
\* JSON, a body without a string text, or a text that is blank after trimming, no
\* translation request follows, the display, the session file and the history stay as they
\* are, and the segmenter is Idle with an empty accumulator, polling again.
C10_TranscriptionFailure ==
    [][(vad_pc = "transcribing" /\ NoTranscript(reply')) =>
          /\ vad_pc' = "poll"
          /\ UNCHANGED <<transcript, files, log_file, translation_history>>
          /\ phrase' = <<>> /\ ~speaking' /\ silence_count' = 0]_vars

\* a blank transcript came back while the display showed an earlier phrase
C10_Witness ==
    /\ ev = "no_result"
    /\ reply.kind = "text"
    /\ transcript # EmptyString
    /\ phrase = <<>>
    /\ ~speaking

\* C8: whatever the interleaving of callbacks and poll cycles, the batches taken by the
\* VAD thread, concatenated in the order taken, followed by what the buffer still holds,
\* are the mono samples the callback appended, in the order appended: what was taken is a
\* prefix of them, nothing taken twice, dropped or moved.
C8_DrainedIsPrefix ==
    audit => /\ drained \o audio_buffer = captured
             /\ Len(drained) <= Len(captured)
             /\ SubSeq(captured, 1, Len(drained)) = drained

\* samples were taken in more than one batch while others wait in the buffer
C8_Witness ==
    /\ audit
    /\ Len(drained) >= 2
    /\ drained[1] # drained[Len(drained)]
    /\ audio_buffer # <<>>
    /\ Len(captured) = MaxAudit
    /\ ev \in {"start", "continue", "idle", "inactive"}

\* the state a processed session end leaves
Cleared ==
    /\ phrase = <<>>
    /\ ~speaking
    /\ silence_count = 0
    /\ log_file = 0
    /\ transcript = EmptyString

\* C6 as stated: once the session flag is clear for good, the accumulator is eventually
\* empty, the segmenter Idle with a zero silence counter, the session file closed and the
\* display empty, and they stay so.
C6_Original == <>[](~session_active) => <>[]Cleared

\* C6 amended: the same, provided the process keeps running and the capture stream keeps
\* delivering samples: the session end is processed by a poll cycle that takes a non-empty
\* batch, and by none other.
C6_SessionEndClears ==
    (<>[](~session_active) /\ []running /\ []<>(audio_buffer # <<>>)) => <>[]Cleared

\* a poll cycle processed the end of a session that had published a translation
C6_Witness ==
    /\ ev = "session_end"
    /\ ~session_active
    /\ running
    /\ translation_history # <<>>
    /\ files # <<>>
    /\ Cleared

\* the response is a transport error, not JSON, without a string content, or blank
NoTranslation(resp) ==
    \/ resp.kind \in {"error", "not_json", "no_text"}
    \/ resp.kind = "text" /\ Trim(resp.text) = <<>>

\* C11: when the translation request of a transcribed phrase returns a transport error, a
\* body that is not JSON, a body without a string content, or a blank content, the display
\* becomes the transcript alone whatever the display mode, the session file (if open)
\* gains the transcript line and the separator only, and the history stays as it is.
C11_TranslationFailure ==
    [][(vad_pc = "translating" /\ NoTranslation(reply')) =>
          /\ transcript' = call.text
          /\ UNCHANGED translation_history
          /\ IF log_file = 0 THEN UNCHANGED files
             ELSE files' =
                     [files EXCEPT ![log_file] = @ \o <<call.text, Separator>>]
          /\ vad_pc' = "poll"]_vars

\* a translation that was not JSON left the transcript on the display and in the file of
\* a session in mode Both
C11_Witness ==
    /\ ev = "published"
    /\ reply.kind = "not_json"
    /\ settings.display_mode = "Both"
    /\ settings.target_language # ""
    /\ transcript = <<"a">>
    /\ log_file # 0
    /\ files[log_file] = <<<<"a">>, Separator>>

\* C12: a publish sets the display, whatever it showed, to the translation when there is
\* one and the dispatch was given mode TranslationOnly, to the transcript, a newline and
\* the translation when there is one and the mode is Both, and to the transcript alone
\* when there is none; a translation request is made only by a dispatch given a
\* non-empty target language, and a dispatch given an empty one publishes the transcript.
C12_DisplayComposition ==
    [][/\ (vad_pc = "translating" /\ vad_pc' = "poll") =>
             transcript' =
                 IF NoTranslation(reply') THEN call.text
                 ELSE IF call.display_mode = "TranslationOnly" THEN Trim(reply'.text)
                 ELSE call.text \o <<"\n">> \o Trim(reply'.text)
       /\ (vad_pc = "transcribing" /\ vad_pc' = "translating") =>
             /\ call.target_language # ""
             /\ call'.text = Trim(reply'.text)
             /\ call'.text # <<>>
       /\ (vad_pc = "transcribing" /\ reply'.kind = "text" /\ ~NoTranscript(reply')
              /\ call.target_language = "") =>
             /\ vad_pc' = "poll"
             /\ transcript' = Trim(reply'.text)]_vars

\* a second translated phrase replaced the display of a session in mode Both
C12_Witness ==
    /\ ev = "published"
    /\ transcript = <<"a", "\n", "x">>
    /\ Len(translation_history) = 2

\* the little-endian fields of a byte sequence
Rd16(b, i) == b[i] + 256 * b[i + 1]
Rd32Is(b, i, v) == Rd16(b, i) = v % 65536 /\ Rd16(b, i + 2) = v \div 65536
Tag(b, i) == <<b[i], b[i + 1], b[i + 2], b[i + 3]>>

\* C13: the encoding of N samples at rate R has exactly 44 + 2N bytes, all in 0..255, and
\* its header reads: RIFF, size 36 + 2N, WAVE, fmt chunk of 16 bytes, format 1 (PCM),
\* 1 channel, sample rate R, byte rate 2R, block align 2, 16 bits per sample, data chunk
\* of exactly 2N bytes.
C13_WavHeader ==
    vad_pc = "transcribing" =>
        LET b == call.wav
            n == Len(call.samples)
        IN /\ Len(b) = 44 + 2 * n
           /\ \A i \in 1..Len(b) : b[i] \in 0..255
           /\ Tag(b, 1) = <<82, 73, 70, 70>>
           /\ Rd32Is(b, 5, 36 + 2 * n)
           /\ Tag(b, 9) = <<87, 65, 86, 69>>
           /\ Tag(b, 13) = <<102, 109, 116, 32>>
           /\ Rd32Is(b, 17, 16)
           /\ Rd16(b, 21) = 1
           /\ Rd16(b, 23) = 1
           /\ Rd32Is(b, 25, call.rate)
           /\ Rd32Is(b, 29, 2 * call.rate)
           /\ Rd16(b, 33) = 2
           /\ Rd16(b, 35) = 16
           /\ Tag(b, 37) = <<100, 97, 116, 97>>
           /\ Rd32Is(b, 41, 2 * n)

\* the long phrase was encoded at 44100 Hz
C13_Witness ==
    /\ vad_pc = "transcribing"
    /\ call.rate = 44100
    /\ Len(call.samples) = WavLong
    /\ Len(call.wav) = 44 + 2 * WavLong
    /\ call.wav[45] = 255

\* the cycle ends the phrase on the silence count, the phrase within the cap
SilenceFinalize ==
    /\ ActiveBatch
    /\ speaking
    /\ Finalizes
    /\ Len(phrase) + Len(audio_buffer) <= PhraseCap

\* C14 as stated: on a finalize triggered by silence, the prefix handed to the
\* transcription call is the phrase up to and including its last voiced batch: every
\* trailing silent batch is dropped in full and no sample of a voiced batch is dropped,
\* whatever the lengths of the batches.
C14_Original ==
    [][(SilenceFinalize /\ ev' = "dispatch") =>
          call'.samples = SubSeq(phrase, 1, voiced_len)]_vars

\* C15: every cycle that ends a phrase, on the silence count or on the cap, computes the
\* prefix length max(0, L - n * b), with L the accumulated length, the current batch
\* included, n the silence count after this batch and b the length of this batch: the
\* prefix handed to the transcription call has exactly that length, it lies within the
\* phrase, and nothing is handed over when it is not above half a second.
C15_TrimLength ==
    [][(ActiveBatch /\ speaking /\ Finalizes) =>
          /\ ClaimedEnd >= 0
          /\ ClaimedEnd <= Len(phrase) + Len(audio_buffer)
          /\ ev' = "dispatch" =>
                /\ Len(call'.samples) = ClaimedEnd
                /\ silence_count' * Len(audio_buffer) + ClaimedEnd
                      = Len(phrase) + Len(audio_buffer)
          /\ ev' = "discard" => 2 * ClaimedEnd <= sample_rate]_vars

\* a silent stall took a phrase past the cap, and the whole stall was trimmed off it
C15_Witness ==
    /\ vad_pc = "transcribing"
    /\ Len(phrase) > PhraseCap
    /\ silence_count = 1
    /\ Len(call.samples) = Len(phrase) - StallChunk
    /\ voiced_len = Len(call.samples)

\* C16 as stated: every phrase handed to the transcription call has at most
\* sample_rate * MAX_PHRASE_SECS samples.
C16_Original ==
    vad_pc = "transcribing" => Len(call.samples) <= call.rate * MAX_PHRASE_SECS

\* the segmenter is Idle with nothing accumulated and nothing counted
IdleEmpty(sp, ph, sc) == ~sp /\ ph = <<>> /\ sc = 0

\* C17: a cycle that ends a phrase leaves the segmenter Idle with an empty accumulator
\* and a zero silence count once it is over, whether the phrase was discarded or
\* dispatched and whatever the services answered; and whenever a cycle is over, Idle goes
\* with an empty accumulator and a zero count, Speaking with a count below
\* SILENCE_CHUNKS_TO_END.
C17_AfterFinalize ==
    [][/\ ev' = "discard" => IdleEmpty(speaking', phrase', silence_count')
       /\ (vad_pc \in {"transcribing", "translating"} /\ vad_pc' = "poll") =>
             IdleEmpty(speaking', phrase', silence_count')
       /\ vad_pc' = "poll" =>
             IF speaking' THEN silence_count' < SILENCE_CHUNKS_TO_END
             ELSE phrase' = <<>> /\ silence_count' = 0]_vars

\* the phrase was published although its translation failed, and the segmenter is Idle
C17_Witness ==
    /\ ev = "published"
    /\ reply.kind = "error"
    /\ vad_pc = "poll"
    /\ IdleEmpty(speaking, phrase, silence_count)
    /\ transcript # EmptyString

\* a step of the VAD loop that starts a cycle
LoopStep == vad_pc = "poll" /\ ev' # ev

\* C18: a poll cycle that reads a zero sample rate, or that takes an empty batch, leaves
\* the segmenter's state, silence count and accumulator, the history, the session file
\* and its handle and the display as they are and starts no request; with a zero rate it
\* leaves the sample buffer as it is too.
C18_SkipCycle ==
    [][(LoopStep /\ (sample_rate = 0 \/ audio_buffer = <<>>)) =>
          /\ UNCHANGED <<speaking, silence_count, phrase, translation_history, log_file,
                         files, transcript, was_session_active, call>>
          /\ vad_pc' = "poll"
          /\ sample_rate = 0 => UNCHANGED audio_buffer]_vars

\* a cycle read a zero rate while samples waited and the session flag was set
C18_Witness ==
    /\ ev = "no_rate"
    /\ sample_rate = 0
    /\ audio_buffer # <<>>
    /\ session_active

\* C19: a poll cycle that takes a batch and observes the session flag clear adds nothing
\* to the accumulator, which is empty when the cycle is over, leaves or makes the
\* segmenter Idle, starts no transcription or translation request, and drops the batch.
C19_InactiveGate ==
    [][(PollsBatch /\ ~session_active) =>
          /\ phrase' = <<>>
          /\ ~speaking'
          /\ silence_count' = 0
          /\ vad_pc' = "poll"
          /\ call' = NoCall
          /\ UNCHANGED <<files, translation_history>>]_vars

\* a batch was dropped by a cycle of an ended session whose file had been created
C19_Witness ==
    /\ ev = "inactive"
    /\ ~session_active
    /\ audio_buffer = <<>>
    /\ vad_pc = "poll"
    /\ call = NoCall
    /\ files # <<>>
    /\ translation_history = <<>>

\* C20 as stated: while the session flag is clear the display is never set to a
\* non-empty string and no line is appended to a session file.
C20_Original ==
    [][~session_active =>
          /\ transcript' # transcript => transcript' = EmptyString
          /\ \A k \in DOMAIN files : files'[k] = files[k]]_vars

\* C21 as stated: every session has a session file of its own: the cycle that processes
\* the first batch after the flag went from false to true does not go on with the file
\* that was open before, so no record of this session joins those of another.
C21_Original ==
    [][(ActiveBatch /\ new_session /\ log_file # 0) => log_file' # log_file]_vars

\* C22: the message list of every translation request is one system message, then one
\* user turn and one assistant turn for each pair the history holds at that moment,
\* oldest pair first, then the user turn with the transcript; the history holds at most
\* HISTORY_LEN pairs, gains the pair of each successful translation at its end and
\* nothing from a translation that failed.
C22_RequestContext ==
    [][/\ (vad_pc = "transcribing" /\ vad_pc' = "translating") =>
             LET m == call'.messages
                 h == translation_history
             IN /\ Len(h) <= HISTORY_LEN
                /\ Len(m) = 2 * Len(h) + 2
                /\ m[1] = [role |-> "system", content |-> <<call.target_language>>]
                /\ \A i \in 2..Len(m) : m[i].role # "system"
                /\ \A i \in 1..Len(h) :
                      /\ m[2 * i] = [role |-> "user", content |-> h[i][1]]
                      /\ m[2 * i + 1] = [role |-> "assistant", content |-> h[i][2]]
                /\ m[Len(m)] = [role |-> "user", content |-> Trim(reply'.text)]
                /\ UNCHANGED translation_history
       /\ (vad_pc = "translating" /\ vad_pc' = "poll") =>
             IF NoTranslation(reply') THEN UNCHANGED translation_history
             ELSE translation_history'[Len(translation_history')]
                     = <<call.text, Trim(reply'.text)>>]_vars

\* a request carries three pairs, the oldest of a text other than the newest
C22_Witness ==
    /\ vad_pc = "translating"
    /\ Len(call.messages) = 2 * HISTORY_LEN + 2
    /\ call.messages[2].content # call.messages[6].content
    /\ call.messages[2].content = translation_history[1][1]

\* C23: a cycle that sees the session flag differ from the value it remembers, so a
\* session start or a session end, takes the new value and leaves the history as it is;
\* and the first translation request of a session, made while its session file is still
\* empty, carries every pair the history holds, those of earlier sessions.
C23_HistoryAcrossSessions ==
    [][/\ (PollsBatch /\ session_active # was_session_active) =>
             /\ was_session_active' = session_active
             /\ UNCHANGED translation_history
       /\ (vad_pc' = "translating" /\ log_file' # 0 /\ files'[log_file'] = <<>>) =>
             \A i \in 1..Len(translation_history') :
                 /\ call'.messages[2 * i].content = translation_history'[i][1]
                 /\ call'.messages[2 * i + 1].content = translation_history'[i][2]]_vars

\* the first request of a session with a file carries a pair of a session before it
C23_Witness ==
    /\ vad_pc = "translating"
    /\ log_file # 0
    /\ files[log_file] = <<>>
    /\ translation_history # <<>>
    /\ Len(call.messages) = 2 * Len(translation_history) + 2
    /\ call.messages[3].content = translation_history[1][2]

\* the VAD thread leaves the block in which it holds the settings lock
Snapshots == vad_at = "snapshot" /\ vad_at' # vad_at

\* C24 as stated: the values a cycle uses are those the settings had when the cycle
\* started, so a write made during the cycle has no effect on it.
C24_Original ==
    [][Snapshots => settings = local.started_with]_vars

\* C24: the values a cycle uses are those the settings have at the one moment the cycle
\* holds the settings lock, after its batch is drained and the session flag examined: the
\* voice decision uses that threshold and a dispatch gets that target language and display
\* mode; no settings write made after that moment, the time of the two requests
\* included, changes them: a translation is requested if and only if the target language
\* the dispatch got is not empty, and the display is composed in the mode it got.
C24_Snapshot ==
    [][/\ Snapshots =>
             /\ ~speaking =>
                   (speaking' <=> RmsAbove(local.new_samples, settings.silence_threshold))
             /\ vad_pc' = "transcribing" =>
                   /\ call'.target_language = settings.target_language
                   /\ call'.display_mode = settings.display_mode
       /\ (vad_at = "call" /\ vad_at' = "call") =>
             /\ call'.target_language = call.target_language
             /\ call'.display_mode = call.display_mode
       /\ (vad_at = "call" /\ vad_pc = "transcribing" /\ reply'.kind = "text"
              /\ ~NoTranscript(reply')) =>
             (vad_pc' = "translating" <=> call.target_language # "")
       /\ (vad_pc = "translating" /\ vad_at' = "publish" /\ ~NoTranslation(reply')) =>
             transcript' = IF call.display_mode = "TranslationOnly" THEN Trim(reply'.text)
                           ELSE call.text \o <<"\n">> \o Trim(reply'.text)]_vars

\* a translation is published alone although the settings, written during the requests,
\* now ask for no translation and for both texts
C24_Witness ==
    /\ vad_at = "publish"
    /\ transcript = <<"x">>
    /\ settings = OtherSettings
    /\ local.started_with = DefaultSettings

\* C25: while the transcription or the translation request is outstanding the VAD thread
\* holds none of the four locks.
C25_NoLockAcrossCall ==
    vad_pc \in {"transcribing", "translating"} => Held("vad") = {}

\* during a request the callback holds the sample buffer and the UI the display
C25_Witness ==
    /\ vad_pc = "transcribing"
    /\ owner["audio_buffer"] = "callback"
    /\ owner["transcript"] = "ui"

\* the threads that take the locks
Threads == {"vad", "capture", "callback", "ui"}

\* thread t is at a step that drops a guard; none of these steps waits for a lock
Dropping(t) ==
    CASE t = "vad" -> vad_at \in {"rate", "take", "clear", "snapshot", "publish"}
      [] t = "ui" -> ui_at \in {"write_back", "read", "load"}
      [] t = "capture" -> capture_pc = "rate"
      [] t = "callback" -> TRUE

\* C27: no thread holds two of the four locks at once, and a thread that holds a lock
\* is at the step that drops it, which waits for no other lock: whatever the other
\* threads hold or wait for, every lock held is released.
C27_OneLockEach ==
    \A t \in Threads :
        /\ Cardinality(Held(t)) <= 1
        /\ Held(t) # {} => Dropping(t)

\* three threads hold a lock each
C27_Witness ==
    /\ owner["audio_buffer"] = "callback"
    /\ owner["settings"] = "ui"
    /\ owner["transcript"] = "vad"

\* a request is outstanding
InFlight == vad_pc \in {"transcribing", "translating"}

\* s is the beginning of t
IsPrefix(s, t) == Len(s) <= Len(t) /\ SubSeq(t, 1, Len(s)) = s

\* C26: a request is started only when none is outstanding; while one is outstanding the
\* segmenter's state, the silence count, the accumulator and the samples sent stay as
\* they are, every callback adds its samples to the end of the sample buffer and nothing
\* leaves the buffer; and the drain that follows takes the whole buffer as one batch.
C26_OneCallAtATime ==
    [][/\ (~InFlight /\ InFlight') =>
             /\ vad_pc = "poll"
             /\ call = NoCall
             /\ vad_pc' = "transcribing"
       /\ (InFlight /\ InFlight') =>
             /\ UNCHANGED <<speaking, silence_count, phrase>>
             /\ call'.samples = call.samples /\ call'.wav = call.wav
             /\ IsPrefix(audio_buffer, audio_buffer')
       /\ (InFlight /\ owner["audio_buffer"] = "free"
              /\ owner'["audio_buffer"] = "callback") =>
             Len(audio_buffer') > Len(audio_buffer)
       /\ (vad_at = "take" /\ vad_at' # vad_at) =>
             /\ local'.new_samples = audio_buffer
             /\ audio_buffer' = <<>>]_vars

\* samples captured during a request wait in the buffer, the callback over
C26_Witness ==
    /\ vad_pc = "translating"
    /\ audio_buffer # <<>>
    /\ owner["audio_buffer"] = "free"
    /\ phrase # <<>>

\* C28: once the capture thread has ended on an error, the process still running, no
\* sample is ever in the buffer, the VAD thread goes on polling, the segmenter is idle
\* with an empty accumulator, no request is outstanding, no session file exists and the
\* display is empty.
C28_InertAfterDeviceError ==
    (capture_pc = "exited" /\ running) =>
        /\ audio_buffer = <<>>
        /\ vad_pc = "poll"
        /\ ~speaking
        /\ phrase = <<>>
        /\ call = NoCall
        /\ transcript = EmptyString
        /\ translation_history = <<>>
        /\ files = <<>>

\* the stream failed after the rate was written, a session is on and the loop has just
\* found the buffer empty
C28_Witness ==
    /\ capture_pc = "exited"
    /\ sample_rate # 0
    /\ session_active
    /\ ev = "empty"

\* both threads have ended
Terminated == vad_pc = "exited" /\ capture_pc = "exited"

\* C29: once the running flag is cleared both threads end, each request being answered;
\* and the VAD thread, at the head of its loop with the flag cleared, takes nothing more
\* from the buffer, changes nothing of its state and starts no request: it can only end,
\* and ended it stays.
C29_Termination ==
    /\ ~running ~> Terminated
    /\ [][/\ (~running /\ vad_pc = "poll") =>
                /\ vad_pc' \in {"poll", "exited"}
                /\ IsPrefix(audio_buffer, audio_buffer')
                /\ UNCHANGED <<speaking, silence_count, phrase, transcript, files,
                               translation_history, log_file, was_session_active>>
          /\ vad_pc = "exited" => vad_pc' = "exited"
          /\ (capture_pc = "exited") => (capture_pc' = "exited" /\ UNCHANGED audio_buffer)]_vars

\* both threads ended after a phrase was published and with samples left in the buffer
C29_Witness ==
    /\ Terminated
    /\ transcript # EmptyString
    /\ audio_buffer # <<>>

\* C30: the sample rate changes only once, from 0, by the write of the capture thread,
\* which comes before the stream is built: the buffer is empty then and gains samples
\* only later; and the VAD thread takes a batch only in a cycle that read a rate other
\* than 0.
C30_RateWrittenOnce ==
    [][/\ sample_rate' # sample_rate =>
             /\ sample_rate = 0
             /\ capture_pc = "rate" /\ capture_pc' = "build"
             /\ audio_buffer = <<>> /\ audio_buffer' = <<>>
       /\ audio_buffer' # audio_buffer /\ Len(audio_buffer') > 0 =>
             /\ capture_pc = "streaming"
             /\ sample_rate # 0
       /\ (vad_at = "take" /\ vad_at' # vad_at) =>
             /\ local.rate # 0
             /\ local.rate = sample_rate]_vars

\* a cycle has read the rate the capture thread wrote and taken a batch
C30_Witness ==
    /\ vad_at = "session"
    /\ local.rate = 2
    /\ local.new_samples # <<>>
    /\ capture_pc = "streaming"

\* the sum of the channel values of frame k of a slice of frames of c channels
FrameSum(data, c, k) == Sum(SubSeq(data, (k - 1) * c + 1, k * c))

\* C31: a callback given F complete frames of C channels makes the buffer longer by
\* exactly F samples and leaves what was in it; the k-th sample added is the average of
\* the C values of frame k, each value of a 16-bit stream being divided by 32768 (so
\* times 125 / 12288 in the unit of the amplitudes) before the sum; with one channel the
\* samples added are the values given, one for one.
C31_Downmix ==
    [][audio_buffer' # audio_buffer =>
          LET data == stream.data
              c == channels
              f == Len(data) \div c
              old == Len(audio_buffer)
          IN /\ Len(data) = f * c
             /\ Len(audio_buffer') = old + f
             /\ SubSeq(audio_buffer', 1, old) = audio_buffer
             /\ \A k \in 1..f :
                   IF stream.format = "I16"
                   THEN audio_buffer'[old + k] * c * 12288 = 125 * FrameSum(data, c, k)
                   ELSE audio_buffer'[old + k] * c = FrameSum(data, c, k)
             /\ (c = 1 /\ stream.format = "F32") =>
                   SubSeq(audio_buffer', old + 1, old + f) = data]_vars

\* a 16-bit stereo callback has added the averages of its two frames, 0.375 and -0.75
C31_Witness ==
    /\ stream = [format |-> "I16", data |-> <<24576, 0, 0 - 24576, 0 - 24576>>]
    /\ channels = 2
    /\ audio_buffer = <<125, 0 - 250>>

====
